---- MODULE Spec2Model ----
(***************************************************************************)
(* Model of homecredit/data/utils_old.py: the path and schema helpers      *)
(* (sort_paths, set_dtypes, create_folder) and the metadata builder        *)
(* write_data_props.                                                       *)
(*                                                                         *)
(* Python strings are modelled as sequences of one-character strings, so   *)
(* that split, indexing of the last character, int() and the ordering of   *)
(* strings are computed rather than assumed.                               *)
(***************************************************************************)
EXTENDS Integers, Sequences, FiniteSets, TLC

VARIABLES
    \* sort_paths: the argument, the outcome of the call, the position
    paths, sorted_paths, sp_pc,
    \* set_dtypes: the argument, the returned mapping, the position
    schema, schema_ret, sd_pc,
    \* create_folder: the directory tree, the tree before the last step,
    \* the arguments of the call just made (NoVal after any other step)
    fs, fs_before, cf_call,
    \* write_data_props: the features CSV, the parquet files on disk
    features_csv, parquet_files,
    \* write_data_props: the loaded features table, the argument
    features_df, dfs_props,
    \* write_data_props: loop position and per-group locals
    wd_pc, gi, fi, structure_dict, columns, cols_cat, columns_dtypes,
    \* write_data_props: what glob and read_parquet returned (history)
    located, frames,
    \* write_data_props: the raised exception and the pickled output
    wd_exc, pkl, pkl_writes

sortVars == <<paths, sorted_paths, sp_pc>>
dtypeVars == <<schema, schema_ret, sd_pc>>
folderVars == <<fs, fs_before, cf_call>>
propsVars == <<features_csv, parquet_files, features_df, dfs_props, wd_pc, gi, fi, structure_dict, columns,
               cols_cat, columns_dtypes, located, frames, wd_exc, pkl,
               pkl_writes>>
vars == <<sortVars, dtypeVars, folderVars, propsVars>>

NoVal == "<unset>"

(***************************************************************************)
(* Strings                                                                 *)
(***************************************************************************)

\* The characters in use, in code-point order.
AsciiOrder ==
    <<"*", ".", "/", "0", "1", "2", "3", "4", "5", "6", "7", "8", "9", "A",
      "D", "E", "K", "L", "M", "N", "P", "T", "U", "W", "_", "a", "b", "c",
      "d", "e", "f", "g", "h", "i", "j", "k", "l", "m", "n", "o", "p", "q",
      "r", "s", "t", "u", "v", "w", "x", "y", "z">>

Ord(c) == CHOOSE i \in 1..Len(AsciiOrder) : AsciiOrder[i] = c

DigitChars == <<"0", "1", "2", "3", "4", "5", "6", "7", "8", "9">>

IsDigit(c) == \E i \in 1..Len(DigitChars) : DigitChars[i] = c

DigitVal(c) == (CHOOSE i \in 1..Len(DigitChars) : DigitChars[i] = c) - 1

\* Python's a < b on strings: lexicographic by code point.
StrLess(a, b) ==
    \E i \in 1..(Len(a) + 1) :
        /\ \A j \in 1..(i - 1) : j <= Len(b) /\ a[j] = b[j]
        /\ \/ i = Len(a) + 1 /\ Len(b) >= i
           \/ i <= Len(a) /\ i <= Len(b) /\ Ord(a[i]) < Ord(b[i])

\* str.split(sep): the segments between the occurrences of sep.
RECURSIVE split(_, _)
split(s, sep) ==
    IF \A i \in 1..Len(s) : s[i] # sep
    THEN <<s>>
    ELSE LET i == CHOOSE k \in 1..Len(s) :
                      s[k] = sep /\ \A j \in 1..(k - 1) : s[j] # sep
         IN <<SubSeq(s, 1, i - 1)>> \o split(SubSeq(s, i + 1, Len(s)), sep)

\* int(s) raises ValueError unless s is a decimal literal.
IntOk(s) == Len(s) > 0 /\ \A i \in 1..Len(s) : IsDigit(s[i])

RECURSIVE IntVal(_)
IntVal(s) ==
    IF s = <<>> THEN 0
    ELSE 10 * IntVal(SubSeq(s, 1, Len(s) - 1)) + DigitVal(s[Len(s)])

Last(s) == s[Len(s)]

Range(f) == {f[x] : x \in DOMAIN f}

(***************************************************************************)
(* Outcomes of a call: a returned value or a raised exception.             *)
(***************************************************************************)

Return(v) == [ok |-> TRUE, val |-> v]
Raise(e) == [ok |-> FALSE, exc |-> e]

(***************************************************************************)
(* sort_paths                                                              *)
(***************************************************************************)

\* path.split("_")[-1].split(".")[0]
NumPart(path) == Head(split(Last(split(path, "_")), "."))

\* (variant: the paths alone are compared, as strings)
TupleLessLexicographic(x, y) == StrLess(x[2], y[2])

\* Comparison of the (number, path) tuples that sorted() orders.
TupleLess(x, y) == x[1] < y[1] \/ (x[1] = y[1] /\ StrLess(x[2], y[2]))

\* sorted(): stable insertion into an ordered list.
RECURSIVE InsertSorted(_, _)
InsertSorted(x, s) ==
    IF s = <<>> THEN <<x>>
    ELSE IF TupleLess(x, Head(s)) THEN <<x>> \o s
    ELSE <<Head(s)>> \o InsertSorted(x, Tail(s))

RECURSIVE sorted(_)
sorted(s) ==
    IF s = <<>> THEN <<>>
    ELSE InsertSorted(s[Len(s)], sorted(SubSeq(s, 1, Len(s) - 1)))

\* (variant: int() that never raises, a bad literal counting as 0)
PathsNumsLenient(ps) ==
    Return([i \in 1..Len(ps) |->
              IF IntOk(NumPart(ps[i])) THEN IntVal(NumPart(ps[i])) ELSE 0])

\* paths_nums = [int(...) for path in paths]
PathsNums(ps) ==
    IF \E i \in 1..Len(ps) : ~IntOk(NumPart(ps[i]))
    THEN Raise("ValueError")
    ELSE Return([i \in 1..Len(ps) |-> IntVal(NumPart(ps[i]))])

sort_paths(ps) ==
    IF Len(ps) = 1 THEN Return(ps)
    ELSE LET nums == PathsNums(ps) IN
         IF ~nums.ok THEN nums
         ELSE LET zipped == [i \in 1..Len(ps) |-> <<nums.val[i], ps[i]>>]
                  srt == sorted(zipped)
              IN Return([i \in 1..Len(ps) |-> srt[i][2]])

(***************************************************************************)
(* Inputs of sort_paths: paths name_<n>.ext written out from their parts,  *)
(* and paths that are not of that form.                                    *)
(***************************************************************************)

MaxPaths == 3

RECURSIVE DecStr(_)
DecStr(n) ==
    IF n < 10 THEN <<DigitChars[n + 1]>>
    ELSE DecStr(n \div 10) \o <<DigitChars[(n % 10) + 1]>>

MkPath(name, n, ext) == name \o <<"_">> \o DecStr(n) \o <<".">> \o ext

Names == {<<"a">>, <<"b", "_", "3">>}
Nums == {1, 2, 10}
Exts == {<<"p">>}

WellFormedPaths == {MkPath(nm, n, e) : nm \in Names, n \in Nums, e \in Exts}

\* a_x.p and base.p
OtherPaths == {<<"a", "_", "x", ".", "p">>, <<"b", "a", "s", "e", ".", "p">>}

PathPool == WellFormedPaths \cup OtherPaths

SeqsUpTo(S, n) == UNION {[1..k -> S] : k \in 0..n}

CallSortPaths ==
    /\ sp_pc = "call"
    /\ sorted_paths' = sort_paths(paths)
    /\ sp_pc' = "done"
    /\ UNCHANGED paths

(***************************************************************************)
(* set_dtypes                                                              *)
(***************************************************************************)

\* The configured column names (homecredit.config).
COL_ID == <<"i", "d">>
COL_WEEK == <<"W", "E", "E", "K", "_", "N", "U", "M">>
COL_DATE == <<"d", "a", "t", "e">>

num_group1 == <<"n", "u", "m", "_", "g", "r", "o", "u", "p", "1">>
num_group2 == <<"n", "u", "m", "_", "g", "r", "o", "u", "p", "2">>

\* (variant: the suffix is looked at before the fixed columns)
set_dtype_suffix_first(col, dtype) ==
    IF Last(col) \in {"P", "A"} THEN "Float64"
    ELSE IF Last(col) \in {"M"} THEN "String"
    ELSE IF Last(col) \in {"D"} THEN "Date"
    ELSE IF col \in {COL_ID, COL_WEEK, num_group1, num_group2} THEN "Int64"
    ELSE IF col \in {COL_DATE} THEN "Date"
    ELSE dtype

\* One pass of the loop body: the dtype stored for col.
set_dtype(col, dtype) ==
    IF col \in {COL_ID, COL_WEEK, num_group1, num_group2} THEN "Int64"
    ELSE IF col \in {COL_DATE} THEN "Date"
    ELSE IF Last(col) \in {"P", "A"} THEN "Float64"
    ELSE IF Last(col) \in {"M"} THEN "String"
    ELSE IF Last(col) \in {"D"} THEN "Date"
    ELSE IF Last(col) \in {"T", "L"} THEN dtype
    ELSE dtype

\* The dict is changed in place and returned; schema keeps the argument as
\* it was passed. col[-1] of an empty name raises IndexError once the
\* fixed-column tests fail.
set_dtypes(sch) ==
    IF \E col \in DOMAIN sch :
          col = <<>> /\ col \notin {COL_ID, COL_WEEK, num_group1, num_group2, COL_DATE}
    THEN Raise("IndexError")
    ELSE Return([col \in DOMAIN sch |-> set_dtype(col, sch[col])])

MaxSchemaCols == 2

ColPool ==
    {COL_ID, COL_WEEK, COL_DATE, num_group1, num_group2,
     <<"a", "P">>, <<"b", "A">>, <<"k", "M">>, <<"c", "D">>,
     <<"e", "T">>, <<"g", "L">>, <<"x", "1">>}

InDtypes == {"Int64", "Float64", "String", "Date", "Boolean"}

Schemas ==
    UNION {[S -> InDtypes] :
             S \in {T \in SUBSET ColPool : Cardinality(T) <= MaxSchemaCols}}

CallSetDtypes ==
    /\ sd_pc = "call"
    /\ schema_ret' = set_dtypes(schema)
    /\ sd_pc' = "done"
    /\ UNCHANGED schema

(***************************************************************************)
(* create_folder                                                           *)
(*                                                                         *)
(* The file system is the set of existing nodes of a small tree; a node is *)
(* the sequence of names leading to it.                                    *)
(***************************************************************************)

DirNodes == {<<"o">>, <<"o", "d">>, <<"o", "d", "s">>, <<"o", "e">>}
FileNodes == {<<"o", "d", "f">>, <<"o", "d", "s", "g">>, <<"o", "e", "h">>}
Nodes == DirNodes \cup FileNodes

IsPrefix(a, b) == Len(a) <= Len(b) /\ SubSeq(b, 1, Len(a)) = a
Parent(n) == SubSeq(n, 1, Len(n) - 1)
Under(path) == {n \in Nodes : IsPrefix(path, n) /\ n # path}
Ancestors(path) == {n \in Nodes : IsPrefix(n, path) /\ n # path}

\* os.path.exists
exists(tree, path) == path \in tree

\* shutil.rmtree: the directory and everything below it
rmtree(tree, path) == tree \ ({path} \cup Under(path))

\* os.makedirs(path, exist_ok=True): the directory and its missing parents
makedirs(tree, path) == tree \cup {path} \cup Ancestors(path)

\* (variant: the rm flag is not honoured)
create_folder_keep(tree, path, rm) == makedirs(tree, path)

create_folder(tree, path, rm) ==
    LET removed == IF rm /\ exists(tree, path) THEN rmtree(tree, path) ELSE tree
    IN makedirs(removed, path)

NoCall == [called |-> FALSE, path |-> <<>>, rm |-> FALSE]

\* Something else creates a file or directory under an existing directory.
Touch ==
    \E n \in Nodes \ fs :
        /\ Len(n) = 1 \/ Parent(n) \in fs
        /\ fs' = fs \cup {n}
        /\ fs_before' = fs
        /\ cf_call' = NoCall

CallCreateFolder ==
    \E path \in DirNodes, rm \in BOOLEAN :
        /\ fs' = create_folder(fs, path, rm)
        /\ fs_before' = fs
        /\ cf_call' = [called |-> TRUE, path |-> path, rm |-> rm]

(***************************************************************************)
(* write_data_props: helpers                                               *)
(***************************************************************************)

\* (variant: entries already present are kept)
DictUpdateKeepFirst(a, b) ==
    [k \in DOMAIN a \cup DOMAIN b |-> IF k \in DOMAIN a THEN a[k] ELSE b[k]]

\* dict.update: the entries of b replace and extend those of a
DictUpdate(a, b) ==
    [k \in DOMAIN a \cup DOMAIN b |-> IF k \in DOMAIN b THEN b[k] ELSE a[k]]

PATH_DATA == <<"d">>
Train == <<"t", "r", "a", "i", "n">>
Test == <<"t", "e", "s", "t">>

gen_file_path(file_name, mode) ==
    PATH_DATA \o <<"/", "p", "a", "r", "q", "u", "e", "t", "_", "f", "i", "l", "e", "s", "/">> \o mode \o <<"/">>
        \o mode \o <<"_">> \o file_name \o <<".", "p", "a", "r", "q", "u", "e", "t">>

\* The helpers write_data_props calls through the utils module.
utils_gen_file_path(file_name, mode) == gen_file_path(file_name, mode)
utils_sort_paths(ps) == sort_paths(ps)
utils_set_dtypes(sch) == set_dtypes(sch)

\* fnmatch of one glob pattern against one path: * matches any run of
\* characters within a path component.
RECURSIVE fnmatch(_, _)
fnmatch(pat, str) ==
    IF pat = <<>> THEN str = <<>>
    ELSE IF Head(pat) = "*"
         THEN \/ fnmatch(Tail(pat), str)
              \/ str # <<>> /\ Head(str) # "/" /\ fnmatch(pat, Tail(str))
         ELSE str # <<>> /\ Head(str) = Head(pat) /\ fnmatch(Tail(pat), Tail(str))

Matching(files, pat) == {f \in files : fnmatch(pat, f)}

\* glob returns the matching files in an order of the file system's choosing.
Orderings(S) ==
    {o \in [1..Cardinality(S) -> S] : \A i, j \in DOMAIN o : i # j => o[i] # o[j]}

\* (variant: the list is left as collected, unsorted and with repeats)
np_unique_keep(cols) == cols

\* The names of a set in ascending order.
RECURSIVE SortedSeqOf(_)
SortedSeqOf(S) ==
    IF S = {} THEN <<>>
    ELSE LET m == CHOOSE x \in S : \A y \in S \ {x} : StrLess(x, y)
         IN <<m>> \o SortedSeqOf(S \ {m})

\* np.unique: the distinct names, ascending
np_unique(cols) == SortedSeqOf(Range(cols))

(***************************************************************************)
(* write_data_props: the features table (pandas)                           *)
(***************************************************************************)

\* A missing cell of the CSV (text cells are character sequences).
NaN == <<"NaN">>
None == "<None>"

\* features_df.fillna("")
fillna(csv) ==
    [i \in DOMAIN csv |->
        [csv[i] EXCEPT !.new_name = IF @ = NaN THEN <<>> ELSE @,
                       !.agg = IF @ = NaN THEN <<>> ELSE @]]

\* (variant: the rows of every source group)
features_all_groups(df, name) == df

\* features_df[features_df["source_group"] == name]
features_sg(df, name) == SelectSeq(df, LAMBDA r : r.source_group = name)

\* df.index.values
IndexValues(df) == {df[i].feature : i \in DOMAIN df}

\* df.loc[col]: the rows labelled col (one row, or a frame of several)
loc(df, col) == SelectSeq(df, LAMBDA r : r.feature = col)

\* Lines 122-124 raise ValueError when .loc gives several rows: the truth
\* value of the resulting Series is ambiguous.
ColRaises(df, sg_df, col) ==
    /\ col \in IndexValues(sg_df)
    /\ Len(loc(sg_df, col)) > 1 \/ Len(loc(df, col)) > 1

\* mapping[col]
mapping_of(sg_df, col) ==
    IF col \in IndexValues(sg_df)
    THEN LET col_new == loc(sg_df, col)[1].new_name
         IN IF col_new # <<>> THEN col_new ELSE col
    ELSE col

is_dummy(df, sg_df, col) ==
    col \in IndexValues(sg_df) /\ loc(df, col)[1].agg = <<"d", "u", "m", "m", "y">>

\* (variant: only None is dropped)
col_vals_keep_empty(frame, col) == {v \in frame.unique[col] : v # None}

\* [i for i in df[col].unique() if (i is not None) & (i != "")]
col_vals(frame, col) == {v \in frame.unique[col] : v # None /\ v # ""}

\* dates_df[dates_df["source_group"] == name].index.to_list()
columns_date_index(df, name) ==
    LET dates_df == SelectSeq(df, LAMBDA r : r.date_col = 1)
        sel == features_sg(dates_df, name)
    IN [i \in DOMAIN sel |-> sel[i].feature]

(***************************************************************************)
(* write_data_props: inputs                                                *)
(***************************************************************************)

MaxPatterns == 2
MaxRows == 2

GroupOrder == <<"g1", "g2">>

\* File-name patterns a group may list: a_* and base
PatA == <<"a", "_", "*">>
PatBase == <<"b", "a", "s", "e">>
PatternPool == {PatA, PatBase}

\* Column names
aP == <<"a", "P">>
bP == <<"b", "P">>
kM == <<"k", "M">>
eT == <<"e", "T">>
zT == <<"z", "T">>

\* The parquet files that may be on disk, by mode and stem.
ParquetPool ==
    {gen_file_path(<<"a", "_", "0">>, Train), gen_file_path(<<"a", "_", "1">>, Train),
     gen_file_path(<<"a", "_", "x">>, Train), gen_file_path(<<"b", "a", "s", "e">>, Train),
     gen_file_path(<<"a", "_", "0">>, Test)}

\* pl.read_parquet: the frame a train file holds (its columns in order, its
\* raw schema, the values df[col].unique() yields).
read_parquet(path) ==
    IF path = gen_file_path(<<"a", "_", "0">>, Train) THEN
        [columns |-> <<COL_ID, aP, kM, eT>>,
         schema |-> [c \in {COL_ID, aP, kM, eT} |->
                       IF c = kM THEN "String" ELSE "Int64"],
         unique |-> [c \in {COL_ID, aP, kM, eT} |->
                       IF c = kM THEN {None, "", "x"} ELSE {"1", "2"}]]
    ELSE IF path = gen_file_path(<<"a", "_", "1">>, Train) THEN
        [columns |-> <<COL_ID, kM, eT>>,
         schema |-> [c \in {COL_ID, kM, eT} |->
                       IF c = eT THEN "Boolean" ELSE "String"],
         unique |-> [c \in {COL_ID, kM, eT} |->
                       IF c = kM THEN {"y"} ELSE {None, "1"}]]
    ELSE IF path = gen_file_path(<<"a", "_", "x">>, Train) THEN
        [columns |-> <<COL_ID>>,
         schema |-> [c \in {COL_ID} |-> "Float64"],
         unique |-> [c \in {COL_ID} |-> {"1"}]]
    ELSE
        [columns |-> <<COL_ID, bP, eT, kM>>,
         schema |-> [c \in {COL_ID, bP, eT, kM} |->
                       IF c = bP THEN "Float64" ELSE "String"],
         unique |-> [c \in {COL_ID, bP, eT, kM} |->
                       IF c = bP THEN {"3"} ELSE {"z", "", None}]]

\* Rows the features CSV may hold, in file order.
FeatureRows ==
    <<[feature |-> kM, source_group |-> "g1", new_name |-> NaN,
       agg |-> <<"d", "u", "m", "m", "y">>, date_col |-> 0],
      [feature |-> bP, source_group |-> "g1", new_name |-> aP,
       agg |-> NaN, date_col |-> 0],
      [feature |-> kM, source_group |-> "g2", new_name |-> NaN,
       agg |-> <<"d", "u", "m", "m", "y">>, date_col |-> 0],
      [feature |-> eT, source_group |-> "g2", new_name |-> zT,
       agg |-> <<"d", "u", "m", "m", "y">>, date_col |-> 1],
      [feature |-> kM, source_group |-> "g1", new_name |-> zT,
       agg |-> NaN, date_col |-> 0]>>

FeatureTables ==
    {SelectSeq(FeatureRows, LAMBDA r : r \in keep) :
        keep \in {K \in SUBSET Range(FeatureRows) : Cardinality(K) <= MaxRows}}

\* The pattern lists of a group: no pattern twice.
PatternLists ==
    {l \in SeqsUpTo(PatternPool, MaxPatterns) :
        \A i, j \in DOMAIN l : i # j => l[i] # l[j]}

\* The dfs_props arguments: each group with its pattern list.
PropsArguments ==
    {[g \in Range(GroupOrder) |->
         [paths |-> IF g = GroupOrder[1] THEN l[1] ELSE l[2],
          structure |-> NoVal, columns |-> NoVal, columns_cat |-> NoVal,
          columns_dtypes |-> NoVal, columns_date_index |-> NoVal]] :
        l \in {m \in PatternLists \X PatternLists :
                  Len(m[1]) + Len(m[2]) <= MaxPatterns}}

(***************************************************************************)
(* write_data_props: the steps                                             *)
(***************************************************************************)

\* Lines 71-77: read the features CSV.
ReadFeatures ==
    /\ wd_pc = "read"
    /\ features_df' = fillna(features_csv)
    /\ wd_pc' = "group"
    /\ UNCHANGED <<features_csv, parquet_files, dfs_props, gi, fi,
                   structure_dict, columns, cols_cat, columns_dtypes,
                   located, frames, wd_exc, pkl, pkl_writes>>

\* Lines 80-100: enter the next group and initialise its accumulators.
StartGroup ==
    /\ wd_pc = "group"
    /\ gi <= Len(GroupOrder)
    /\ structure_dict' =
          [i \in Range(dfs_props[GroupOrder[gi]].paths) |->
              [paths |-> [train |-> <<>>, test |-> <<>>],
               schema |-> <<>>,
               columns_map |-> <<>>]]
    /\ columns' = <<>>
    /\ cols_cat' = <<>>
    /\ columns_dtypes' = <<>>
    /\ fi' = 1
    /\ wd_pc' = "files"
    /\ UNCHANGED <<features_csv, parquet_files, features_df, dfs_props, gi,
                   located, frames, wd_exc, pkl, pkl_writes>>

\* (variant: the path list is the dict it was initialised as)
first_path_of_dict(ps) ==
    IF ps = <<>> THEN Raise("KeyError") ELSE Return(ps[1])

\* paths_i[0]
first_path(ps) ==
    IF ps = <<>> THEN Raise("IndexError") ELSE Return(ps[1])

\* Lines 103-134 for one pattern, given what the two globs returned: the
\* values the iteration computes, or the exception it raises.
PatternBody(name, g_train, g_test) ==
    LET features_sg_df == features_sg(features_df, name)
        s_train == utils_sort_paths(g_train)
        s_test == utils_sort_paths(g_test)
    IN IF ~s_train.ok THEN s_train
       ELSE IF ~first_path(s_train.val).ok THEN first_path(s_train.val)
       ELSE LET df == read_parquet(first_path(s_train.val).val)
                sch == utils_set_dtypes(df.schema)
                cols == Range(df.columns)
            IN IF ~sch.ok THEN sch
               ELSE IF ~s_test.ok THEN s_test
               ELSE IF \E col \in cols : ColRaises(features_df, features_sg_df, col)
                    THEN Raise("ValueError")
               ELSE LET mapping == [col \in cols |-> mapping_of(features_sg_df, col)]
                    IN Return(
                        [train |-> s_train.val,
                         test |-> s_test.val,
                         df |-> df,
                         schema |-> sch.val,
                         mapping |-> mapping,
                         cols_to_incl |->
                            [i \in DOMAIN df.columns |-> mapping[df.columns[i]]],
                         cols_cat_i |->
                            [col \in {c \in cols :
                                        is_dummy(features_df, features_sg_df, c)}
                                |-> col_vals(df, col)],
                         cols_dtypes |-> [col \in cols |-> sch.val[col]]])

\* Lines 102-145: one iteration of the loop over the group's patterns.
ProcessPattern ==
    /\ wd_pc = "files"
    /\ fi <= Len(dfs_props[GroupOrder[gi]].paths)
    /\ LET name == GroupOrder[gi]
           file_name == dfs_props[name].paths[fi]
       IN \E g_train \in Orderings(Matching(parquet_files,
                                            utils_gen_file_path(file_name, Train))),
             g_test \in Orderings(Matching(parquet_files,
                                           utils_gen_file_path(file_name, Test))) :
             LET out == PatternBody(name, g_train, g_test) IN
             IF out.ok
             THEN /\ structure_dict' =
                        [structure_dict EXCEPT
                            ![file_name].schema = out.val.schema,
                            ![file_name].columns_map = out.val.mapping]
                  /\ columns_dtypes' = DictUpdate(columns_dtypes, out.val.cols_dtypes)
                  /\ columns' = columns \o out.val.cols_to_incl
                  /\ cols_cat' = DictUpdate(cols_cat, out.val.cols_cat_i)
                  /\ located' = (<<name, file_name>> :>
                                    [train |-> out.val.train, test |-> out.val.test])
                                @@ located
                  /\ frames' = (<<name, file_name>> :> out.val.df) @@ frames
                  /\ fi' = fi + 1
                  /\ UNCHANGED <<wd_pc, wd_exc>>
             ELSE /\ wd_pc' = "raised"
                  /\ wd_exc' = out.exc
                  /\ UNCHANGED <<structure_dict, columns_dtypes, columns,
                                 cols_cat, located, frames, fi>>
    /\ UNCHANGED <<features_csv, parquet_files, features_df, dfs_props, gi,
                   pkl, pkl_writes>>

\* Lines 146-153: store the group's results in its props.
FinishGroup ==
    /\ wd_pc = "files"
    /\ fi > Len(dfs_props[GroupOrder[gi]].paths)
    /\ LET name == GroupOrder[gi] IN
       dfs_props' =
          [dfs_props EXCEPT ![name] =
              [paths |-> @.paths,
               structure |-> structure_dict,
               columns |-> np_unique(columns),
               columns_cat |-> cols_cat,
               columns_dtypes |-> columns_dtypes,
               columns_date_index |-> columns_date_index(features_df, name)]]
    /\ gi' = gi + 1
    /\ wd_pc' = "group"
    /\ UNCHANGED <<features_csv, parquet_files, features_df, fi,
                   structure_dict, columns, cols_cat, columns_dtypes,
                   located, frames, wd_exc, pkl, pkl_writes>>

\* Lines 155-157: pickle the whole dictionary.
Save ==
    /\ wd_pc = "group"
    /\ gi > Len(GroupOrder)
    /\ pkl' = dfs_props
    /\ pkl_writes' = pkl_writes + 1
    /\ wd_pc' = "done"
    /\ UNCHANGED <<features_csv, parquet_files, features_df, dfs_props, gi,
                   fi, structure_dict, columns, cols_cat, columns_dtypes,
                   located, frames, wd_exc>>

(***************************************************************************)
(* Specifications                                                          *)
(***************************************************************************)

SortInit ==
    /\ paths \in SeqsUpTo(PathPool, MaxPaths)
    /\ sorted_paths = NoVal
    /\ sp_pc = "call"
    /\ schema = <<>> /\ schema_ret = NoVal /\ sd_pc = "idle"
    /\ fs = {} /\ fs_before = {} /\ cf_call = NoCall
    /\ features_csv = <<>> /\ parquet_files = {} /\ features_df = NoVal
    /\ dfs_props = <<>> /\ wd_pc = "idle" /\ gi = 0 /\ fi = 0
    /\ structure_dict = <<>> /\ columns = <<>> /\ cols_cat = <<>>
    /\ columns_dtypes = <<>> /\ located = <<>> /\ frames = <<>>
    /\ wd_exc = NoVal /\ pkl = NoVal /\ pkl_writes = 0

SortNext ==
    CallSortPaths /\ UNCHANGED <<dtypeVars, folderVars, propsVars>>

SortSpec == SortInit /\ [][SortNext]_vars

DtypeInit ==
    /\ schema \in Schemas
    /\ schema_ret = NoVal
    /\ sd_pc = "call"
    /\ paths = <<>> /\ sorted_paths = NoVal /\ sp_pc = "idle"
    /\ fs = {} /\ fs_before = {} /\ cf_call = NoCall
    /\ features_csv = <<>> /\ parquet_files = {} /\ features_df = NoVal
    /\ dfs_props = <<>> /\ wd_pc = "idle" /\ gi = 0 /\ fi = 0
    /\ structure_dict = <<>> /\ columns = <<>> /\ cols_cat = <<>>
    /\ columns_dtypes = <<>> /\ located = <<>> /\ frames = <<>>
    /\ wd_exc = NoVal /\ pkl = NoVal /\ pkl_writes = 0

DtypeNext ==
    CallSetDtypes /\ UNCHANGED <<sortVars, folderVars, propsVars>>

DtypeSpec == DtypeInit /\ [][DtypeNext]_vars

FolderInit ==
    /\ fs = {} /\ fs_before = {} /\ cf_call = NoCall
    /\ paths = <<>> /\ sorted_paths = NoVal /\ sp_pc = "idle"
    /\ schema = <<>> /\ schema_ret = NoVal /\ sd_pc = "idle"
    /\ features_csv = <<>> /\ parquet_files = {} /\ features_df = NoVal
    /\ dfs_props = <<>> /\ wd_pc = "idle" /\ gi = 0 /\ fi = 0
    /\ structure_dict = <<>> /\ columns = <<>> /\ cols_cat = <<>>
    /\ columns_dtypes = <<>> /\ located = <<>> /\ frames = <<>>
    /\ wd_exc = NoVal /\ pkl = NoVal /\ pkl_writes = 0

FolderNext ==
    \/ Touch /\ UNCHANGED <<sortVars, dtypeVars, propsVars>>
    \/ CallCreateFolder /\ UNCHANGED <<sortVars, dtypeVars, propsVars>>

FolderSpec == FolderInit /\ [][FolderNext]_vars

PropsInit ==
    /\ features_csv \in FeatureTables
    /\ parquet_files \in SUBSET ParquetPool
    /\ dfs_props \in PropsArguments
    /\ features_df = NoVal
    /\ wd_pc = "read" /\ gi = 1 /\ fi = 1
    /\ structure_dict = <<>> /\ columns = <<>> /\ cols_cat = <<>>
    /\ columns_dtypes = <<>> /\ located = <<>> /\ frames = <<>>
    /\ wd_exc = NoVal /\ pkl = NoVal /\ pkl_writes = 0
    /\ paths = <<>> /\ sorted_paths = NoVal /\ sp_pc = "idle"
    /\ schema = <<>> /\ schema_ret = NoVal /\ sd_pc = "idle"
    /\ fs = {} /\ fs_before = {} /\ cf_call = NoCall

PropsNext ==
    \/ ReadFeatures /\ UNCHANGED <<sortVars, dtypeVars, folderVars>>
    \/ StartGroup /\ UNCHANGED <<sortVars, dtypeVars, folderVars>>
    \/ ProcessPattern /\ UNCHANGED <<sortVars, dtypeVars, folderVars>>
    \/ FinishGroup /\ UNCHANGED <<sortVars, dtypeVars, folderVars>>
    \/ Save /\ UNCHANGED <<sortVars, dtypeVars, folderVars>>

PropsSpec == PropsInit /\ [][PropsNext]_vars

(***************************************************************************)
(* Properties: sort_paths                                                  *)
(***************************************************************************)

WellFormed(p) == p \in WellFormedPaths

\* The <n> a well-formed path was written with.
NumOf(p) == CHOOSE n \in Nums : \E nm \in Names, e \in Exts : p = MkPath(nm, n, e)

Count(s, x) == Cardinality({i \in DOMAIN s : s[i] = x})

IsPermutation(a, b) ==
    Len(a) = Len(b) /\ \A x \in Range(a) \cup Range(b) : Count(a, x) = Count(b, x)

\* C1: for a list of paths name_<n>.ext, sort_paths returns a permutation of
\* the list in ascending order of the integer <n>; a list of exactly one path
\* is returned unchanged.
C1_SortedByNumber ==
    sp_pc = "done" =>
        /\ (\A i \in DOMAIN paths : WellFormed(paths[i])) =>
              /\ sorted_paths.ok
              /\ IsPermutation(sorted_paths.val, paths)
              /\ \A i, j \in DOMAIN sorted_paths.val :
                    i < j => NumOf(sorted_paths.val[i]) <= NumOf(sorted_paths.val[j])
        /\ Len(paths) = 1 => sorted_paths = Return(paths)

\* A list with 10 ahead of 2 has been sorted into another order.
C1_Witness ==
    /\ sp_pc = "done"
    /\ Len(paths) >= 2
    /\ \A i \in DOMAIN paths : WellFormed(paths[i])
    /\ \E i, j \in DOMAIN paths :
          i < j /\ NumOf(paths[i]) = 10 /\ NumOf(paths[j]) = 2
    /\ sorted_paths.ok
    /\ sorted_paths.val # paths

\* C8 as stated: sort_paths raises whenever some path of its input has a
\* non-numeric suffix after the last underscore.
C8_RaisesOnAnyNonNumeric ==
    (sp_pc = "done" /\ \E i \in DOMAIN paths : ~WellFormed(paths[i]))
        => ~sorted_paths.ok

\* C8 amended: sort_paths raises ValueError whenever its input is not a list
\* of exactly one path and some path has a non-numeric suffix; a list of
\* exactly one path is returned, whatever its suffix.
C8_RaisesUnlessSingleton ==
    sp_pc = "done" =>
        /\ (Len(paths) # 1 /\ \E i \in DOMAIN paths : ~WellFormed(paths[i]))
              => sorted_paths = Raise("ValueError")
        /\ Len(paths) = 1 => sorted_paths.ok

\* A list of several paths, one of them non-numeric, has been refused.
C8_Witness ==
    /\ sp_pc = "done"
    /\ Len(paths) >= 2
    /\ \E i \in DOMAIN paths : ~WellFormed(paths[i])
    /\ ~sorted_paths.ok

(***************************************************************************)
(* Properties: set_dtypes                                                  *)
(***************************************************************************)

EndsIn(col, chars) == Len(col) > 0 /\ col[Len(col)] \in chars

\* The dtype the suffix convention gives a column.
ExpectedDtype(col, dtype) ==
    CASE col \in {COL_ID, COL_WEEK, num_group1, num_group2} -> "Int64"
      [] col \notin {COL_ID, COL_WEEK, num_group1, num_group2}
            /\ col = COL_DATE -> "Date"
      [] col \notin {COL_ID, COL_WEEK, num_group1, num_group2, COL_DATE}
            /\ EndsIn(col, {"P", "A"}) -> "Float64"
      [] col \notin {COL_ID, COL_WEEK, num_group1, num_group2, COL_DATE}
            /\ EndsIn(col, {"M"}) -> "String"
      [] col \notin {COL_ID, COL_WEEK, num_group1, num_group2, COL_DATE}
            /\ EndsIn(col, {"D"}) -> "Date"
      [] OTHER -> dtype

\* C2: set_dtypes returns a mapping with the column names of its input; the
\* identity, week and group-number columns are integer whatever their suffix,
\* the date column is a date, then P/A give float, M string, D date, and any
\* other column keeps the dtype it came with.
C2_DtypesBySuffix ==
    sd_pc = "done" =>
        /\ schema_ret.ok
        /\ DOMAIN schema_ret.val = DOMAIN schema
        /\ \A col \in DOMAIN schema :
              schema_ret.val[col] = ExpectedDtype(col, schema[col])

\* The week column, whose name ends in M, came in as a string and is now an
\* integer, next to a T column that kept its dtype.
C2_Witness ==
    /\ sd_pc = "done"
    /\ DOMAIN schema = {COL_WEEK, <<"e", "T">>}
    /\ schema[COL_WEEK] = "String"
    /\ schema[<<"e", "T">>] = "Boolean"
    /\ schema_ret.val[COL_WEEK] = "Int64"
    /\ schema_ret.val[<<"e", "T">>] = "Boolean"

(***************************************************************************)
(* Properties: create_folder                                               *)
(***************************************************************************)

\* C9: after create_folder(path, rm) the directory exists; with rm=True it
\* is empty, whatever it held; with rm=False a directory that existed is
\* left as it was, contents included.
C9_FolderAfterCall ==
    cf_call.called =>
        /\ cf_call.path \in fs
        /\ cf_call.rm => Under(cf_call.path) \cap fs = {}
        /\ (~cf_call.rm /\ cf_call.path \in fs_before) => fs = fs_before

\* rm=True has just emptied a directory that held something.
C9_Witness ==
    /\ cf_call.called
    /\ cf_call.rm
    /\ cf_call.path \in fs_before
    /\ Under(cf_call.path) \cap fs_before # {}
    /\ cf_call.path \in fs
    /\ Under(cf_call.path) \cap fs = {}

(***************************************************************************)
(* Properties: write_data_props                                            *)
(***************************************************************************)

Groups == Range(GroupOrder)

PatternsOf(g) == Range(dfs_props[g].paths)

\* The train files on disk that a pattern stands for.
TrainFiles(file_name) == Matching(parquet_files, gen_file_path(file_name, Train))

\* The number in the name of a numbered train file.
FileNumber(path) ==
    IF path = gen_file_path(<<"a", "_", "0">>, Train) THEN 0
    ELSE IF path = gen_file_path(<<"a", "_", "1">>, Train) THEN 1
    ELSE -1

\* The lowest-numbered train file of a pattern (its only file when one).
FirstTrainFile(file_name) ==
    CHOOSE f \in TrainFiles(file_name) :
        \A h \in TrainFiles(file_name) : FileNumber(f) <= FileNumber(h)

\* The raw columns of the first train file of a pattern.
RawColumns(file_name) == Range(read_parquet(FirstTrainFile(file_name)).columns)

\* The last pattern of a group, in iteration order, that has the column.
LastPatternWith(g, col) ==
    LET pats == dfs_props[g].paths
        i == CHOOSE k \in DOMAIN pats :
                /\ col \in RawColumns(pats[k])
                /\ \A j \in DOMAIN pats : j > k => col \notin RawColumns(pats[j])
    IN pats[i]

\* The rows of the features CSV about a column within a group.
RowsOf(g, col) ==
    {r \in Range(features_csv) : r.feature = col /\ r.source_group = g}

\* C3 as stated: once write_data_props is done, each pattern's structure
\* entry holds the train and test paths that were located for it.
C3_StructureHoldsPaths ==
    wd_pc = "done" =>
        \A g \in Groups : \A f \in PatternsOf(g) :
            /\ dfs_props[g].structure[f].paths.train = located[<<g, f>>].train
            /\ dfs_props[g].structure[f].paths.test = located[<<g, f>>].test

\* C4: once write_data_props is done, each pattern's columns_map has one
\* entry per column of the pattern's first train file: the new_name of the
\* column's row in the same group when that is non-empty, else the column's
\* own name (so never None).
C4_ColumnsMap ==
    wd_pc = "done" =>
        \A g \in Groups : \A f \in PatternsOf(g) :
            LET m == dfs_props[g].structure[f].columns_map IN
            /\ DOMAIN m = Range(frames[<<g, f>>].columns)
            /\ frames[<<g, f>>] = read_parquet(located[<<g, f>>].train[1])
            /\ \A col \in DOMAIN m :
                  LET named == {r \in RowsOf(g, col) : r.new_name \notin {NaN, <<>>}}
                  IN IF named # {}
                     THEN \A r \in named : m[col] = r.new_name
                     ELSE m[col] = col

\* One column has been renamed by its group's row while a column whose only
\* row belongs to the other group has kept its name.
C4_Witness ==
    /\ wd_pc = "done"
    /\ \E g \in Groups : \E f \in PatternsOf(g) :
          LET m == dfs_props[g].structure[f].columns_map IN
          /\ bP \in DOMAIN m /\ m[bP] = aP
          /\ eT \in DOMAIN m /\ m[eT] = eT
          /\ RowsOf(g, eT) = {}
          /\ \E r \in Range(features_csv) : r.feature = eT

\* C5: once write_data_props is done, a group's columns_cat has an entry for
\* exactly the columns of its patterns that the features table flags with
\* agg == "dummy" for that group, and the entry is the set of distinct values
\* of the column in the first train file (of the last pattern that has the
\* column), without None and without the empty string.
C5_ColumnsCat ==
    wd_pc = "done" =>
        \A g \in Groups :
            LET cat == dfs_props[g].columns_cat
                flagged == {col \in UNION {RawColumns(f) : f \in PatternsOf(g)} :
                              \E r \in RowsOf(g, col) : r.agg = <<"d", "u", "m", "m", "y">>}
            IN /\ DOMAIN cat = flagged
               /\ \A col \in flagged :
                     /\ cat[col] = frames[<<g, LastPatternWith(g, col)>>].unique[col]
                                      \ {None, ""}
                     /\ None \notin cat[col]
                     /\ "" \notin cat[col]

\* A flagged column whose file holds a null and an empty string has its
\* other values as its domain.
C5_Witness ==
    /\ wd_pc = "done"
    /\ \E g \in Groups :
          /\ kM \in DOMAIN dfs_props[g].columns_cat
          /\ {None, ""} \subseteq frames[<<g, LastPatternWith(g, kM)>>].unique[kM]
          /\ dfs_props[g].columns_cat[kM] # {}

\* C6: once write_data_props is done, a group's columns list is strictly
\* ascending (so without repeats) and holds exactly the mapped names of the
\* columns of all its patterns.
C6_ColumnsUniqueSorted ==
    wd_pc = "done" =>
        \A g \in Groups :
            LET c == dfs_props[g].columns IN
            /\ \A i, j \in DOMAIN c : i < j => StrLess(c[i], c[j])
            /\ Range(c) = UNION {Range(dfs_props[g].structure[f].columns_map) :
                                    f \in PatternsOf(g)}

\* Two raw columns of two patterns share a mapped name, which is listed once.
C6_Witness ==
    /\ wd_pc = "done"
    /\ \E g \in Groups : \E f1, f2 \in PatternsOf(g) :
          /\ f1 # f2
          /\ aP \in DOMAIN dfs_props[g].structure[f1].columns_map
          /\ dfs_props[g].structure[f1].columns_map[aP] = aP
          /\ bP \in DOMAIN dfs_props[g].structure[f2].columns_map
          /\ dfs_props[g].structure[f2].columns_map[bP] = aP
          /\ Count(dfs_props[g].columns, aP) = 1

Terminated == wd_pc \in {"done", "raised"}

\* Some pattern of some group has no train file on disk.
SomeTrainGlobEmpty ==
    \E g \in Groups : \E f \in PatternsOf(g) : TrainFiles(f) = {}

\* The pattern being processed when the exception was raised.
RaisedAt == dfs_props[GroupOrder[gi]].paths[fi]

\* C7 as stated: if some pattern has no train file, write_data_props fails
\* with an index error and the pickle is not written.
C7_EmptyGlobIndexError ==
    (Terminated /\ SomeTrainGlobEmpty) =>
        /\ wd_pc = "raised"
        /\ wd_exc = "IndexError"
        /\ pkl_writes = 0

\* C7 amended: if some pattern has no train file, write_data_props never
\* completes and the pickle is not written; it raises an index error at that
\* pattern, unless a pattern processed before it raised another error first.
\* The pickle is written once, as the last step, after every group.
C7_EmptyGlobFails ==
    /\ (Terminated /\ SomeTrainGlobEmpty) =>
          /\ wd_pc = "raised"
          /\ pkl_writes = 0
          /\ wd_exc = "IndexError" \/ TrainFiles(RaisedAt) # {}
    /\ (wd_pc = "raised" /\ TrainFiles(RaisedAt) = {}) => wd_exc = "IndexError"
    /\ pkl_writes <= 1
    /\ pkl_writes = 1 =>
          /\ wd_pc = "done"
          /\ gi > Len(GroupOrder)
          /\ pkl = dfs_props
          /\ \A g \in Groups : \A f \in PatternsOf(g) : TrainFiles(f) # {}

\* The second group's pattern has no train file: the first group has been
\* processed, the index error is raised and nothing is written.
C7_Witness ==
    /\ wd_pc = "raised"
    /\ wd_exc = "IndexError"
    /\ gi = 2
    /\ TrainFiles(RaisedAt) = {}
    /\ dfs_props[GroupOrder[1]].paths # <<>>
    /\ pkl_writes = 0

\* C10: once write_data_props is done, the keys of a group's columns_dtypes
\* are the raw column names of its patterns, each with the suffix-normalised
\* dtype of the lowest-numbered train file of the last pattern that has the
\* column; a name of the columns list that is only a rename target has no
\* entry.
C10_ColumnsDtypes ==
    wd_pc = "done" =>
        \A g \in Groups :
            LET d == dfs_props[g].columns_dtypes
                raw == UNION {RawColumns(f) : f \in PatternsOf(g)}
            IN /\ DOMAIN d = raw
               /\ \A col \in raw :
                     d[col] = ExpectedDtype(col,
                                 read_parquet(FirstTrainFile(LastPatternWith(g, col)))
                                     .schema[col])
               /\ \A n \in Range(dfs_props[g].columns) :
                     n \notin raw => n \notin DOMAIN d

\* A T column of two patterns has the dtype of the later pattern, the
\* earlier pattern having two numbered files that disagree on it; and a
\* rename target that is no raw column is listed without a dtype.
C10_Witness ==
    /\ wd_pc = "done"
    /\ \E g \in Groups :
          /\ dfs_props[g].paths = <<PatA, PatBase>>
          /\ Cardinality(TrainFiles(PatA)) = 2
          /\ dfs_props[g].columns_dtypes[eT] = "String"
          /\ read_parquet(FirstTrainFile(PatA)).schema[eT] = "Int64"
    /\ \E g \in Groups : \E n \in Range(dfs_props[g].columns) :
          n \notin DOMAIN dfs_props[g].columns_dtypes

====
